---- MODULE Spec2Model ----
(***************************************************************************)
(* Model of qa_report.py: the weekly QA report script.  It reads bug rows  *)
(* from a spreadsheet (one worksheet per category), reads test-run status  *)
(* messages from a chat channel, aggregates both and posts one report.     *)
(*                                                                         *)
(* Text is modelled as a sequence of one-character strings, so that the    *)
(* parsers (strptime, the two regular expressions, the substring          *)
(* pre-filter) work on characters as the code does.  Emoji of the source   *)
(* are written as ASCII aliases (":green:", ":bug:", ...).                 *)
(***************************************************************************)
EXTENDS Integers, Sequences, FiniteSets, TLC

VARIABLES
    pc,                 \* position of the running entry point
    google_credentials, \* os.getenv('GOOGLE_CREDENTIALS_JSON')
    slack_token,        \* os.getenv('SLACK_BOT_TOKEN')
    calls,              \* collaborator calls made so far, in order
    clock,              \* the reading datetime.now() returns, in seconds
    sheet_outcomes,     \* what each worksheet fetch of main() produced
    bugs_by_sheet,      \* main(): ordered mapping, sequence of <<name, count>>
    slack_world,        \* how the chat collaborator answered the history calls
    test_results,       \* list returned by get_test_results_from_slack
    test_aggregation,   \* result of aggregate_test_results
    blocks,             \* result of create_slack_message
    exit_code,          \* NoValue while running, then [code |-> status]
    records,            \* get_bugs_from_sheet: rows of the worksheet
    bug_count           \* get_bugs_from_sheet: returned count

vars == <<pc, google_credentials, slack_token, calls, clock, sheet_outcomes,
          bugs_by_sheet, slack_world, test_results, test_aggregation, blocks,
          exit_code, records, bug_count>>

\* Python's None.
NoValue == [none |-> TRUE]

----------------------------------------------------------------------------
(* Characters *)

Digits == {"0", "1", "2", "3", "4", "5", "6", "7", "8", "9"}

\* str.strip() and the regular-expression class \s on the characters used.
Whitespace == {" ", "\t", "\n"}

DigitVal(c) ==
    CASE c = "0" -> 0 [] c = "1" -> 1 [] c = "2" -> 2 [] c = "3" -> 3
      [] c = "4" -> 4 [] c = "5" -> 5 [] c = "6" -> 6 [] c = "7" -> 7
      [] c = "8" -> 8 [] c = "9" -> 9

\* int(s) for a non-empty string of decimal digits.
RECURSIVE int(_)
int(s) ==
    IF Len(s) = 0 THEN 0
    ELSE 10 * int(SubSeq(s, 1, Len(s) - 1)) + DigitVal(s[Len(s)])

\* First and last index of s left by str.strip(); empty when first > last.
RECURSIVE StripLeft(_, _)
StripLeft(s, i) ==
    IF i <= Len(s) /\ s[i] \in Whitespace THEN StripLeft(s, i + 1) ELSE i

RECURSIVE StripRight(_, _)
StripRight(s, j) ==
    IF j >= 1 /\ s[j] \in Whitespace THEN StripRight(s, j - 1) ELSE j

strip(s) == SubSeq(s, StripLeft(s, 1), StripRight(s, Len(s)))

----------------------------------------------------------------------------
(* Dates: an instant is a number of seconds since 2000-01-01 00:00:00; a   *)
(* datetime object is the record [instant |-> seconds].                    *)

SecondsPerDay == 86400

\* timedelta(days=7)
WindowDays == 7

IsLeap(y) == (y % 4 = 0) /\ ((y % 100 # 0) \/ (y % 400 = 0))

DaysInMonth(y, m) ==
    IF m = 2 THEN (IF IsLeap(y) THEN 29 ELSE 28)
    ELSE IF m \in {4, 6, 9, 11} THEN 30 ELSE 31

RECURSIVE DaysBeforeMonth(_, _)
DaysBeforeMonth(y, m) ==
    IF m = 1 THEN 0 ELSE DaysBeforeMonth(y, m - 1) + DaysInMonth(y, m - 1)

\* date.toordinal(): days since 0001-01-01, which is day 1.
Ordinal(y, m, d) ==
    LET py == y - 1
    IN  py * 365 + (py \div 4) - (py \div 100) + (py \div 400)
          + DaysBeforeMonth(y, m) + d

\* datetime(y, m, d, 0, 0, 0) as an instant.
Midnight(y, m, d) == (Ordinal(y, m, d) - Ordinal(2000, 1, 1)) * SecondsPerDay

\* Positions of "/" in s.
Slashes(s) == {i \in 1..Len(s) : s[i] = "/"}

AllDigits(s) == \A i \in 1..Len(s) : s[i] \in Digits

\* The %m directive: 1[0-2] | 0[1-9] | [1-9]
MonthField(f) ==
    /\ Len(f) \in {1, 2}
    /\ AllDigits(f)
    /\ int(f) \in 1..12

\* The %d directive: 3[01] | [12]\d | 0[1-9] | [1-9] | " "[1-9]
DayField(f) ==
    \/ /\ Len(f) \in {1, 2}
       /\ AllDigits(f)
       /\ int(f) \in 1..31
    \/ /\ Len(f) = 2
       /\ f[1] = " "
       /\ f[2] \in Digits \ {"0"}

\* The %Y directive: exactly four digits.
YearField(f) == Len(f) = 4 /\ AllDigits(f)

DayOf(f) == IF f[1] = " " THEN int(<<f[2]>>) ELSE int(f)

\* datetime.strptime(date_str.strip(), "%m/%d/%Y"), None on ValueError.
parse_date(date_str) ==
    LET s == strip(date_str)
        sl == Slashes(s)
    IN  IF Cardinality(sl) # 2 THEN NoValue
        ELSE LET i == CHOOSE a \in sl : \A b \in sl : a <= b
                 j == CHOOSE a \in sl : \A b \in sl : a >= b
                 mf == SubSeq(s, 1, i - 1)
                 df == SubSeq(s, i + 1, j - 1)
                 yf == SubSeq(s, j + 1, Len(s))
             IN  IF /\ MonthField(mf)
                    /\ DayField(df)
                    /\ YearField(yf)
                    /\ int(yf) >= 1
                    /\ DayOf(df) <= DaysInMonth(int(yf), int(mf))
                 THEN [instant |-> Midnight(int(yf), int(mf), DayOf(df))]
                 ELSE NoValue

\* The window test with the lower end excluded: seven_days_ago < bug_date.
RECURSIVE CountRecordsOpen(_, _)
CountRecordsOpen(recs, today) ==
    IF Len(recs) = 0 THEN 0
    ELSE LET date_str == Head(recs)
             seven_days_ago == today - WindowDays * SecondsPerDay
             bug_date == IF Len(date_str) > 0 THEN parse_date(date_str)
                         ELSE NoValue
             hit == /\ bug_date # NoValue
                    /\ seven_days_ago < bug_date.instant
                    /\ bug_date.instant <= today
         IN  (IF hit THEN 1 ELSE 0) + CountRecordsOpen(Tail(recs), today)

\* The loop of get_bugs_from_sheet over the rows' date fields.
RECURSIVE CountRecords(_, _)
CountRecords(recs, today) ==
    IF Len(recs) = 0 THEN 0
    ELSE LET date_str == Head(recs)
             seven_days_ago == today - WindowDays * SecondsPerDay
             bug_date == IF Len(date_str) > 0 THEN parse_date(date_str)
                         ELSE NoValue
             hit == /\ bug_date # NoValue
                    /\ seven_days_ago <= bug_date.instant
                    /\ bug_date.instant <= today
         IN  (IF hit THEN 1 ELSE 0) + CountRecords(Tail(recs), today)

\* A worksheet fetch: either it raises, or it returns the rows' date fields.
FetchRaised == [kind |-> "raise"]
FetchRows(recs) == [kind |-> "rows", records |-> recs]

\* get_bugs_from_sheet(gc, sheet_name) for one fetch outcome.
get_bugs_from_sheet(outcome, today) ==
    IF outcome.kind = "raise" THEN 0
    ELSE IF Len(outcome.records) = 0 THEN 0
    ELSE CountRecords(outcome.records, today)

----------------------------------------------------------------------------
(* Regular expressions, as re.search(pattern, text, re.IGNORECASE) runs    *)
(* them.  A pattern is a sequence of items; an item matches characters of  *)
(* one class once ("one"), at most once ("opt") or one or more times       *)
(* ("plus"), and may belong to a capture group.  In both patterns of the   *)
(* source the class of every repeated or optional item is disjoint from    *)
(* what may follow it, so the greedy match is the only match from a given  *)
(* start and no backtracking inside a match attempt is needed.             *)

LowerLetters == <<"a", "b", "c", "d", "e", "f", "g", "h", "i", "j", "k", "l",
                  "m", "n", "o", "p", "q", "r", "s", "t", "u", "v", "w", "x",
                  "y", "z">>

UpperLetters == <<"A", "B", "C", "D", "E", "F", "G", "H", "I", "J", "K", "L",
                  "M", "N", "O", "P", "Q", "R", "S", "T", "U", "V", "W", "X",
                  "Y", "Z">>

\* str.lower() on one character.
LowerOf ==
    [c \in {UpperLetters[i] : i \in 1..Len(UpperLetters)} |->
        LowerLetters[CHOOSE i \in 1..Len(UpperLetters) : UpperLetters[i] = c]]

LowerChar(c) == IF c \in DOMAIN LowerOf THEN LowerOf[c] ELSE c

\* str.lower()
RECURSIVE lower(_)
lower(s) == IF Len(s) = 0 THEN <<>> ELSE <<LowerChar(Head(s))>> \o lower(Tail(s))

\* Does sub occur in s at position i?
RECURSIVE OccursAt(_, _, _, _)
OccursAt(s, sub, i, k) ==
    \/ k > Len(sub)
    \/ /\ i + k - 1 <= Len(s)
       /\ s[i + k - 1] = sub[k]
       /\ OccursAt(s, sub, i, k + 1)

\* sub in s
Contains(s, sub) == \E i \in 1..(Len(s) - Len(sub) + 1) : OccursAt(s, sub, i, 1)

Item(cls, q, grp) == [cls |-> cls, q |-> q, grp |-> grp]

\* A literal string of the pattern: one item per character.  With
\* re.IGNORECASE the classes are compared against the lower-cased text.
Lit(s) == [i \in 1..Len(s) |-> Item({LowerChar(s[i])}, "one", 0)]

\* Number of consecutive characters of ltext from pos on that are in cls.
RECURSIVE RunLen(_, _, _)
RunLen(ltext, pos, cls) ==
    IF pos <= Len(ltext) /\ ltext[pos] \in cls
    THEN 1 + RunLen(ltext, pos + 1, cls)
    ELSE 0

\* Characters item it takes at pos: -1 when it does not match there.
Taken(it, ltext, pos) ==
    IF it.q = "plus"
    THEN (IF RunLen(ltext, pos, it.cls) = 0 THEN -1
          ELSE RunLen(ltext, pos, it.cls))
    ELSE IF pos <= Len(ltext) /\ ltext[pos] \in it.cls THEN 1
    ELSE IF it.q = "opt" THEN 0
    ELSE -1

\* The positions at which the items of pat start when pat is matched at
\* start, followed by the end of the match; the sequence is cut short with
\* a 0 at the first item that does not match.
MatchTrail(pat, ltext, start) ==
    LET trail[i \in 1..(Len(pat) + 1), pos \in 1..(Len(ltext) + 1)] ==
            IF i > Len(pat) THEN <<pos>>
            ELSE IF Taken(pat[i], ltext, pos) < 0 THEN <<0>>
            ELSE <<pos>> \o trail[i + 1, pos + Taken(pat[i], ltext, pos)]
    IN  trail[1, start]

Matches(pat, ltext, start) ==
    MatchTrail(pat, ltext, start)[Len(MatchTrail(pat, ltext, start))] > 0

\* Leftmost start position where pat matches, 0 when there is none.
FirstStart(pat, ltext) ==
    LET first[p \in 1..(Len(ltext) + 2)] ==
            IF p > Len(ltext) + 1 THEN 0
            ELSE IF Matches(pat, ltext, p) THEN p
            ELSE first[p + 1]
    IN  first[1]

\* The capture groups of a match, given its trail: group g is what the
\* items of the group took.
GroupsOf(pat, ngroups, text, trail) ==
    [g \in 1..ngroups |->
        LET its == {i \in 1..Len(pat) : pat[i].grp = g}
            first == CHOOSE i \in its : \A j \in its : i <= j
            last == CHOOSE i \in its : \A j \in its : i >= j
        IN  SubSeq(text, trail[first], trail[last + 1] - 1)]

\* re.search(pat, text, re.IGNORECASE): the match object of the leftmost
\* start position, or None.  (The functions only fix the order of
\* evaluation: lower-case once, find the start once, match once.)
re_search(pat, ngroups, text) ==
    LET found[trail \in Seq(Nat)] == [group |-> GroupsOf(pat, ngroups, text, trail)]
        from[ltext \in Seq(STRING), start \in Nat] ==
            IF start = 0 THEN NoValue
            ELSE found[MatchTrail(pat, ltext, start)]
        search[ltext \in Seq(STRING)] == from[ltext, FirstStart(pat, ltext)]
    IN  search[lower(text)]

Spaces == <<Item(Whitespace, "plus", 0)>>

Number(grp) == <<Item(Digits, "plus", grp)>>

\* (\d+)\s+tests?\s+from\s+\d+\s+shards?:\s+(\d+)\s+passed,\s+(\d+)\s+failed,?\s+(\d+)\s+flaky
pattern ==
    Number(1) \o Spaces \o Lit(<<"t", "e", "s", "t">>)
      \o <<Item({"s"}, "opt", 0)>> \o Spaces
      \o Lit(<<"f", "r", "o", "m">>) \o Spaces \o Number(0) \o Spaces
      \o Lit(<<"s", "h", "a", "r", "d">>) \o <<Item({"s"}, "opt", 0)>>
      \o Lit(<<":">>) \o Spaces
      \o Number(2) \o Spaces \o Lit(<<"p", "a", "s", "s", "e", "d", ",">>)
      \o Spaces
      \o Number(3) \o Spaces \o Lit(<<"f", "a", "i", "l", "e", "d">>)
      \o <<Item({","}, "opt", 0)>> \o Spaces
      \o Number(4) \o Spaces \o Lit(<<"f", "l", "a", "k", "y">>)

\* Test runtime:\s+([\d.]+[smh]+)
runtime_pattern ==
    Lit(<<"T", "e", "s", "t", " ", "r", "u", "n", "t", "i", "m", "e", ":">>)
      \o Spaces
      \o <<Item(Digits \cup {"."}, "plus", 1), Item({"s", "m", "h"}, "plus", 1)>>

\* The "N/A" the code uses when no runtime is found.
RuntimeNA == <<"N", "/", "A">>

StatusSucceeded == ":check: Succeeded"
StatusFailed == ":cross: Failed"

\* Floor division in place of true division: passed // total * 100.
PercentFloor(part, whole) ==
    IF whole > 0 THEN [num |-> (part \div whole) * 100, den |-> 1]
    ELSE [num |-> 0, den |-> 1]

\* passed / total * 100, kept exact as a fraction num/den with den > 0.
\* (In binary floating point the comparisons against 95 and 80 agree with
\* the exact ones for every total the model uses.)
Percent(part, whole) ==
    IF whole > 0 THEN [num |-> part * 100, den |-> whole]
    ELSE [num |-> 0, den |-> 1]

\* parse_test_message(message_text): a record, or None.
parse_test_message(message_text) ==
    LET match == re_search(pattern, 4, message_text)
    IN  IF match = NoValue THEN NoValue
        ELSE LET total_tests == int(match.group[1])
                 passed == int(match.group[2])
                 failed == int(match.group[3])
                 flaky == int(match.group[4])
                 runtime_match == re_search(runtime_pattern, 1, message_text)
                 runtime == IF runtime_match # NoValue THEN runtime_match.group[1]
                            ELSE RuntimeNA
             IN  [total |-> total_tests,
                  passed |-> passed,
                  failed |-> failed,
                  flaky |-> flaky,
                  pass_rate |-> Percent(passed, total_tests),
                  runtime |-> runtime,
                  status |-> IF failed = 0 THEN StatusSucceeded
                             ELSE StatusFailed]

----------------------------------------------------------------------------
(* Configuration constants *)

SHEET_NAMES == <<"Tournaments", "Loyalty Program", "Rakeback", "Secretbox",
                 "Boosters", "Widget Settings", "Media Library">>

----------------------------------------------------------------------------
(* Reading the test channel *)

\* A raised exception: its class and str(e).
SlackApiError(text) == [kind |-> "error", cls |-> "SlackApiError", str |-> text]
OtherException == [kind |-> "error", cls |-> "Exception", str |-> <<>>]

\* Replies of groups_list / conversations_list: is the channel in the list?
ListReply(found) == [kind |-> "ok", found |-> found]

\* Reply of groups_history / conversations_history.
HistoryReply(msgs) == [kind |-> "ok", messages |-> msgs]

\* A call the function did not reach.
NotCalled == [kind |-> "not_called"]

\* A message of the history: with or without a 'text' key.
Message(text, ts) == [has_text |-> TRUE, text |-> text, ts |-> ts]
MessageNoText(ts) == [has_text |-> FALSE, ts |-> ts]

\* 'tests' in text.lower() and ('passed' in text.lower() or 'failed' in text.lower())
PreFilter(text) ==
    /\ Contains(lower(text), <<"t", "e", "s", "t", "s">>)
    /\ \/ Contains(lower(text), <<"p", "a", "s", "s", "e", "d">>)
       \/ Contains(lower(text), <<"f", "a", "i", "l", "e", "d">>)

\* The loop over messages.get('messages', []).
RECURSIVE CollectResults(_)
CollectResults(msgs) ==
    IF Len(msgs) = 0 THEN <<>>
    ELSE LET message == Head(msgs)
             rest == CollectResults(Tail(msgs))
         IN  IF ~message.has_text THEN rest
             ELSE IF ~PreFilter(message.text) THEN rest
             ELSE LET parsed == parse_test_message(message.text)
                  IN  IF parsed = NoValue THEN rest
                      ELSE <<parsed @@ [timestamp |-> message.ts]>> \o rest

\* 'unknown_method' in str(e)
IsUnknownMethod(e) ==
    Contains(e.str, <<"u", "n", "k", "n", "o", "w", "n", "_",
                      "m", "e", "t", "h", "o", "d">>)

Returned(ret, made) == [raised |-> FALSE, ret |-> ret, calls |-> made]
Propagated(made) == [raised |-> TRUE, ret |-> <<>>, calls |-> made]

\* The fallback catching SlackApiError only: other exceptions propagate.
FallbackNarrow(w, made) ==
    LET made1 == Append(made, "conversations_list")
        made2 == Append(made1, "conversations_history")
    IN  IF w.conversations_list.kind = "error"
        THEN (IF w.conversations_list.cls = "SlackApiError"
              THEN Returned(<<>>, made1) ELSE Propagated(made1))
        ELSE IF ~w.conversations_list.found THEN Returned(<<>>, made1)
        ELSE IF w.conversations_history.kind = "error"
             THEN (IF w.conversations_history.cls = "SlackApiError"
                   THEN Returned(<<>>, made2) ELSE Propagated(made2))
        ELSE Returned(CollectResults(w.conversations_history.messages), made2)

\* The fallback branch: conversations_list, then conversations_history.
Fallback(w, made) ==
    LET made1 == Append(made, "conversations_list")
        made2 == Append(made1, "conversations_history")
    IN  IF w.conversations_list.kind = "error" THEN Returned(<<>>, made1)
        ELSE IF ~w.conversations_list.found THEN Returned(<<>>, made1)
        ELSE IF w.conversations_history.kind = "error"
             THEN Returned(<<>>, made2)
        ELSE Returned(CollectResults(w.conversations_history.messages), made2)

\* The except SlackApiError clause of the inner try.
OnGroupsError(w, e, made) ==
    IF e.cls # "SlackApiError" THEN Propagated(made)
    ELSE IF IsUnknownMethod(e) THEN Fallback(w, made)
    ELSE Returned(<<>>, made)

\* get_test_results_from_slack(slack_client), the collaborator answering as w.
get_test_results_from_slack(w) ==
    LET made1 == <<"groups_list">>
        made2 == <<"groups_list", "groups_history">>
    IN  IF w.groups_list.kind = "error"
        THEN OnGroupsError(w, w.groups_list, made1)
        ELSE IF ~w.groups_list.found THEN Returned(<<>>, made1)
        ELSE IF w.groups_history.kind = "error"
             THEN OnGroupsError(w, w.groups_history, made2)
        ELSE Returned(CollectResults(w.groups_history.messages), made2)

----------------------------------------------------------------------------
(* Aggregation *)

RECURSIVE SumField(_, _)
SumField(list, f) ==
    IF Len(list) = 0 THEN 0 ELSE Head(list)[f] + SumField(Tail(list), f)

RECURSIVE CountSucceeded(_)
CountSucceeded(list) ==
    IF Len(list) = 0 THEN 0
    ELSE (IF Head(list).failed = 0 THEN 1 ELSE 0) + CountSucceeded(Tail(list))

\* None also when the records hold no tests at all.
aggregate_none_if_zero(test_results_list) ==
    IF Len(test_results_list) = 0 THEN NoValue
    ELSE IF SumField(test_results_list, "total") = 0 THEN NoValue
    ELSE [total_runs |-> Len(test_results_list),
          total_tests |-> SumField(test_results_list, "total"),
          total_passed |-> SumField(test_results_list, "passed"),
          total_failed |-> SumField(test_results_list, "failed"),
          total_flaky |-> SumField(test_results_list, "flaky"),
          pass_rate |-> Percent(SumField(test_results_list, "passed"),
                                SumField(test_results_list, "total")),
          successful_runs |-> CountSucceeded(test_results_list),
          failed_runs |-> Len(test_results_list)
                            - CountSucceeded(test_results_list)]

\* aggregate_test_results(test_results_list)
aggregate_test_results(test_results_list) ==
    IF Len(test_results_list) = 0 THEN NoValue
    ELSE LET total_passed == SumField(test_results_list, "passed")
             total_failed == SumField(test_results_list, "failed")
             total_flaky == SumField(test_results_list, "flaky")
             total_tests == SumField(test_results_list, "total")
             successes == CountSucceeded(test_results_list)
             failures == Len(test_results_list) - successes
         IN  [total_runs |-> Len(test_results_list),
              total_tests |-> total_tests,
              total_passed |-> total_passed,
              total_failed |-> total_failed,
              total_flaky |-> total_flaky,
              pass_rate |-> Percent(total_passed, total_tests),
              successful_runs |-> successes,
              failed_runs |-> failures]

----------------------------------------------------------------------------
(* Rendering.  A text is a sequence of lines (the pieces between "\n"),    *)
(* a line is a sequence of parts: literal strings and interpolated values. *)

\* Only non-zero counts are stored.
DictSetNonZero(d, k, v) ==
    IF v = 0 THEN d
    ELSE IF \E i \in 1..Len(d) : d[i][1] = k
    THEN [i \in 1..Len(d) |-> IF d[i][1] = k THEN <<k, v>> ELSE d[i]]
    ELSE Append(d, <<k, v>>)

\* bugs_by_sheet[sheet_name] = bug_count on an insertion-ordered dict.
DictSet(d, k, v) ==
    IF \E i \in 1..Len(d) : d[i][1] = k
    THEN [i \in 1..Len(d) |-> IF d[i][1] = k THEN <<k, v>> ELSE d[i]]
    ELSE Append(d, <<k, v>>)

RECURSIVE SumValues(_)
SumValues(d) == IF Len(d) = 0 THEN 0 ELSE Head(d)[2] + SumValues(Tail(d))

Section(text) ==
    [type |-> "section", text |-> [type |-> "mrkdwn", text |-> text]]

Divider == [type |-> "divider"]

EmojiGreen == ":green_circle:"
EmojiYellow == ":yellow_circle:"
EmojiRed == ":red_circle:"

\* rate >= n for an exact fraction.
AtLeast(rate, n) == rate.num >= n * rate.den

HeaderBlock ==
    [type |-> "header",
     text |-> [type |-> "plain_text", text |-> <<<<":chart: Weekly QA Report">>>>]]

SummaryBlock(total_bugs) ==
    Section(<<<<"*:bug: Bugs Found This Week: ", total_bugs, "*">>>>)

BreakdownLine(sheet_name, count) ==
    <<"* ", sheet_name, ": ", count, " bug", IF count # 1 THEN "s" ELSE "">>

BreakdownBlock(d) ==
    Section(<<<<"*Breakdown by feature:*">>>>
            \o [i \in 1..Len(d) |-> BreakdownLine(d[i][1], d[i][2])])

\* The boundaries excluded: > 95 and > 80.
PassRateEmojiStrict(rate) ==
    IF rate.num > 95 * rate.den THEN EmojiGreen
    ELSE IF rate.num > 80 * rate.den THEN EmojiYellow
    ELSE EmojiRed

PassRateEmoji(rate) ==
    IF AtLeast(rate, 95) THEN EmojiGreen
    ELSE IF AtLeast(rate, 80) THEN EmojiYellow
    ELSE EmojiRed

TestSummaryBlock(agg) ==
    Section(<<<<"*:test_tube: Test Results Summary*">>,
              <<PassRateEmoji(agg.pass_rate), " *Pass Rate: ",
                <<".1f", agg.pass_rate>>, "%*">>>>)

TestDetailsBlock(agg) ==
    Section(<<<<"*Test Runs:* ", agg.total_runs>>,
              <<"* Successful: ", agg.successful_runs>>,
              <<"* Failed: ", agg.failed_runs>>,
              <<>>,
              <<"*Overall Stats:*">>,
              <<"* Total Tests: ", agg.total_tests>>,
              <<"* Passed: ", agg.total_passed>>,
              <<"* Failed: ", agg.total_failed>>,
              <<"* Flaky: ", agg.total_flaky>>>>)

NoRunsBlock ==
    Section(<<<<"*:test_tube: Test Results:* No test runs found this week">>>>)

FooterBlock(now) ==
    [type |-> "context",
     elements |-> <<[type |-> "mrkdwn",
                     text |-> <<<<"Report generated: ",
                                  <<"%Y-%m-%d %H:%M:%S UTC", now>>>>>>]>>]

\* The test section left out when there is no aggregate.
create_slack_message_skip(d, agg, now) ==
    <<HeaderBlock, SummaryBlock(SumValues(d))>>
      \o (IF Len(d) > 0 THEN <<BreakdownBlock(d)>> ELSE <<>>)
      \o <<Divider>>
      \o (IF agg # NoValue
          THEN <<TestSummaryBlock(agg), TestDetailsBlock(agg)>>
          ELSE <<>>)
      \o <<Divider, FooterBlock(now)>>

\* create_slack_message(bugs_by_sheet, test_aggregation); now is the
\* datetime.now() read for the footer.
create_slack_message(d, agg, now) ==
    <<HeaderBlock, SummaryBlock(SumValues(d))>>
      \o (IF Len(d) > 0 THEN <<BreakdownBlock(d)>> ELSE <<>>)
      \o <<Divider>>
      \o (IF agg # NoValue
          THEN <<TestSummaryBlock(agg), TestDetailsBlock(agg)>>
          ELSE <<NoRunsBlock>>)
      \o <<Divider, FooterBlock(now)>>

----------------------------------------------------------------------------
(* Inputs: the bounded sets the specifications draw from. *)

MaxRows == 2
MaxMsgs == 2
MaxRuns == 2

SeqsUpTo(S, n) == UNION {[1..k -> S] : k \in 0..n}

DigitChar(n) == CHOOSE c \in Digits : DigitVal(c) = n

\* Decimal digits of a natural number.
RECURSIVE str(_)
str(n) == IF n < 10 THEN <<DigitChar(n)>>
          ELSE str(n \div 10) \o <<DigitChar(n % 10)>>

\* A number padded with zeros to width w.
RECURSIVE Padded(_, _)
Padded(n, w) == IF Len(str(n)) >= w THEN str(n)
                ELSE <<"0">> \o Padded(n, w - 1)

\* The ways a calendar date is written in month/day/4-digit-year form.
DateTexts(y, m, d) ==
    LET plain == Padded(m, 2) \o <<"/">> \o Padded(d, 2) \o <<"/">> \o Padded(y, 4)
        short == str(m) \o <<"/">> \o str(d) \o <<"/">> \o Padded(y, 4)
    IN  {plain, short, <<" ">> \o plain \o <<" ">>, <<" ">> \o short \o <<"\n">>}

\* Date fields that are not of that form: another layout, a day that does
\* not exist, a two-digit year, blanks, nothing.
BadDates ==
    {<<"2", "0", "2", "4", "-", "0", "3", "-", "1", "5">>,
     <<"0", "2", "/", "3", "0", "/", "2", "0", "2", "4">>,
     <<"0", "3", "/", "1", "5", "/", "2", "4">>,
     <<" ">>,
     <<>>}

\* The date fields of the sample rows.
DateStrings ==
    DateTexts(2024, 3, 15) \cup {Padded(3, 2) \o <<"/">> \o Padded(d, 2)
                                   \o <<"/">> \o Padded(2024, 4) : d \in {7, 8, 16}}
      \cup {str(2) \o <<"/">> \o str(29) \o <<"/">> \o str(2024)}
      \cup BadDates

\* Readings of the clock: around midnight of 2024-03-15 and of 2024-03-07.
Todays ==
    {Midnight(2024, 3, 15), Midnight(2024, 3, 15) + 1,
     Midnight(2024, 3, 15) + 43200, Midnight(2024, 3, 7) + 86399}

\* A status message in the form the test bot posts.
StatusText(t, sh, p, f, k) ==
    str(t) \o <<" ", "t", "e", "s", "t", "s", " ", "f", "r", "o", "m", " ">>
      \o str(sh) \o <<" ", "s", "h", "a", "r", "d", "s", ":", " ">>
      \o str(p) \o <<" ", "p", "a", "s", "s", "e", "d", ",", " ">>
      \o str(f) \o <<" ", "f", "a", "i", "l", "e", "d", ",", " ">>
      \o str(k) \o <<" ", "f", "l", "a", "k", "y">>

\* The same in capitals.
StatusTextUpper(t, sh, p, f, k) ==
    str(t) \o <<" ", "T", "E", "S", "T", "S", " ", "F", "R", "O", "M", " ">>
      \o str(sh) \o <<" ", "S", "H", "A", "R", "D", "S", ":", " ">>
      \o str(p) \o <<" ", "P", "A", "S", "S", "E", "D", ",", " ">>
      \o str(f) \o <<" ", "F", "A", "I", "L", "E", "D", ",", " ">>
      \o str(k) \o <<" ", "F", "L", "A", "K", "Y">>

\* The singular form: "1 test from 1 shard: ..."
StatusTextSingular(p, f, k) ==
    <<"1", " ", "t", "e", "s", "t", " ", "f", "r", "o", "m", " ",
      "1", " ", "s", "h", "a", "r", "d", ":", " ">>
      \o str(p) \o <<" ", "p", "a", "s", "s", "e", "d", ",", " ">>
      \o str(f) \o <<" ", "f", "a", "i", "l", "e", "d", ",", " ">>
      \o str(k) \o <<" ", "f", "l", "a", "k", "y">>

WithRuntime(text, d) ==
    text \o <<".", " ", "T", "e", "s", "t", " ", "r", "u", "n", "t", "i", "m",
              "e", ":", " ">> \o d

\* Durations: number+unit parts.
Durations ==
    {<<"3", "m", "4", "5", "s">>, <<"4", "5", "s">>, <<"1", ".", "5", "h">>,
     <<"2", "h">>}

\* Counts <<total, shards, passed, failed, flaky>> of the sample messages.
SampleCounts ==
    {<<120, 4, 115, 5, 2>>, <<10, 1, 8, 2, 0>>, <<0, 1, 0, 0, 0>>,
     <<12, 2, 12, 0, 1>>}

ChatterTests ==
    <<"a", "l", "l", " ", "t", "e", "s", "t", "s", " ", "p", "a", "s", "s",
      "e", "d", " ", "t", "o", "d", "a", "y">>

ChatterOther == <<"d", "e", "p", "l", "o", "y", " ", "d", "o", "n", "e">>

\* Message bodies of the sample channel history.
Bodies ==
    {[has_text |-> TRUE,
      text |-> WithRuntime(StatusText(120, 4, 115, 5, 2), <<"3", "m", "4", "5", "s">>)],
     [has_text |-> TRUE,
      text |-> WithRuntime(StatusText(10, 1, 8, 2, 0), <<"4", "5", "s">>)],
     [has_text |-> TRUE,
      text |-> WithRuntime(StatusTextUpper(12, 2, 12, 0, 1), <<"1", ".", "5", "h">>)],
     [has_text |-> TRUE, text |-> StatusText(0, 1, 0, 0, 0)],
     [has_text |-> TRUE, text |-> StatusTextSingular(1, 0, 0)],
     [has_text |-> TRUE, text |-> ChatterTests],
     [has_text |-> TRUE, text |-> ChatterOther],
     [has_text |-> FALSE]}

\* A history: message i carries timestamp i.
History(bodies) ==
    [i \in 1..Len(bodies) |->
        IF bodies[i].has_text THEN Message(bodies[i].text, i)
        ELSE MessageNoText(i)]

Histories == {History(b) : b \in SeqsUpTo(Bodies, MaxMsgs)}

ErrUnknownMethod ==
    SlackApiError(<<"e", "r", "r", "o", "r", ":", " ", "u", "n", "k", "n",
                    "o", "w", "n", "_", "m", "e", "t", "h", "o", "d">>)

ErrRateLimited ==
    SlackApiError(<<"e", "r", "r", "o", "r", ":", " ", "r", "a", "t", "e",
                    "l", "i", "m", "i", "t", "e", "d">>)

Errors == {ErrUnknownMethod, ErrRateLimited, OtherException}

\* Answers <<list reply, history reply>> of one of the two APIs.
ApiPaths(hist) ==
    {<<ListReply(TRUE), HistoryReply(m)>> : m \in hist}
      \cup {<<ListReply(FALSE), NotCalled>>}
      \cup {<<e, NotCalled>> : e \in Errors}
      \cup {<<ListReply(TRUE), e>> : e \in Errors}

World(g, f) ==
    [groups_list |-> g[1], groups_history |-> g[2],
     conversations_list |-> f[1], conversations_history |-> f[2]]

\* The ways the chat collaborator can answer one call of
\* get_test_results_from_slack; an API that is not reached answers nothing.
SlackWorlds(hist) ==
    LET unsupported == {g \in ApiPaths(hist) :
                           ErrUnknownMethod \in {g[1], g[2]}}
    IN  {World(g, <<NotCalled, NotCalled>>) : g \in ApiPaths(hist) \ unsupported}
          \cup {World(g, f) : g \in unsupported, f \in ApiPaths(hist)}

----------------------------------------------------------------------------
(* main() *)

\* Values of an environment variable: unset, empty, set.
EnvValues == {NoValue, <<>>, <<"{", "}">>}

\* not value, for None or a string
Falsy(v) == v = NoValue \/ Len(v) = 0

\* Worksheet fetches of a run: an exception, no rows, and rows of which one
\* is in the window, one is too old and one has no readable date.
MainOutcomes ==
    {FetchRaised,
     FetchRows(<<>>),
     FetchRows(<<Padded(3, 2) \o <<"/">> \o Padded(15, 2) \o <<"/">> \o str(2024),
                 Padded(3, 2) \o <<"/">> \o Padded(7, 2) \o <<"/">> \o str(2024),
                 <<"n", "/", "a">>>>)}

MainHistories ==
    {History(b) : b \in
        {<<>>,
         <<[has_text |-> TRUE, text |-> ChatterTests], [has_text |-> FALSE]>>,
         <<[has_text |-> TRUE, text |-> StatusText(0, 1, 0, 0, 0)]>>,
         <<[has_text |-> TRUE,
            text |-> WithRuntime(StatusText(10, 1, 8, 2, 0), <<"4", "5", "s">>)],
           [has_text |-> TRUE, text |-> StatusTextSingular(1, 0, 0)]>>}}

\* The clock reading of a run: noon of 2024-03-15.
MainNow == Midnight(2024, 3, 15) + 43200

Idle ==
    /\ records = <<>>
    /\ bug_count = 0

Fresh ==
    /\ calls = <<>>
    /\ sheet_outcomes = <<>>
    /\ bugs_by_sheet = <<>>
    /\ slack_world = NoValue
    /\ test_results = <<>>
    /\ test_aggregation = NoValue
    /\ blocks = <<>>
    /\ exit_code = NoValue

Init ==
    /\ pc = "start"
    /\ google_credentials \in EnvValues
    /\ slack_token \in EnvValues
    /\ clock = MainNow
    /\ Fresh
    /\ Idle

\* "and" in place of "or": both secrets must be missing.
MissingEnvBoth == Falsy(google_credentials) /\ Falsy(slack_token)

\* Line 330: not google_credentials or not slack_token
MissingEnv == Falsy(google_credentials) \/ Falsy(slack_token)

\* Lines 327-336: the two secrets are read and checked.
CheckEnv ==
    /\ pc = "start"
    /\ IF MissingEnv
       THEN pc' = "exited" /\ exit_code' = [code |-> 1]
       ELSE pc' = "init_clients" /\ exit_code' = exit_code
    /\ UNCHANGED <<google_credentials, slack_token, calls, clock,
                   sheet_outcomes, bugs_by_sheet, slack_world, test_results,
                   test_aggregation, blocks, records, bug_count>>

\* Lines 341-347: both clients are built, or the first failure ends the run.
InitClients ==
    /\ pc = "init_clients"
    /\ \/ /\ calls' = calls \o <<"get_google_sheets_client", "get_slack_client">>
          /\ pc' = "collect_bugs"
          /\ exit_code' = exit_code
       \/ /\ calls' = Append(calls, "get_google_sheets_client")
          /\ pc' = "exited"
          /\ exit_code' = [code |-> 1]
    /\ UNCHANGED <<google_credentials, slack_token, clock, sheet_outcomes,
                   bugs_by_sheet, slack_world, test_results, test_aggregation,
                   blocks, records, bug_count>>

\* Lines 352-356: one iteration of the loop over SHEET_NAMES.
CollectBugs ==
    /\ pc = "collect_bugs"
    /\ Len(sheet_outcomes) < Len(SHEET_NAMES)
    /\ \E outcome \in MainOutcomes :
          LET sheet_name == SHEET_NAMES[Len(sheet_outcomes) + 1]
          IN  /\ sheet_outcomes' = Append(sheet_outcomes, outcome)
              /\ calls' = Append(calls, "worksheet")
              /\ bugs_by_sheet' =
                    DictSet(bugs_by_sheet, sheet_name,
                            get_bugs_from_sheet(outcome, clock))
    /\ pc' = pc
    /\ UNCHANGED <<google_credentials, slack_token, clock, slack_world,
                   test_results, test_aggregation, blocks, exit_code, records,
                   bug_count>>

\* Line 360: the channel is read; an exception the function does not catch
\* ends the run with a traceback.
CollectTests ==
    /\ pc = "collect_bugs"
    /\ Len(sheet_outcomes) = Len(SHEET_NAMES)
    /\ \E w \in SlackWorlds(MainHistories) :
          LET r == get_test_results_from_slack(w)
          IN  /\ slack_world' = w
              /\ calls' = calls \o r.calls
              /\ test_results' = r.ret
              /\ IF r.raised
                 THEN pc' = "crashed" /\ exit_code' = [code |-> 1]
                 ELSE pc' = "aggregate" /\ exit_code' = exit_code
    /\ UNCHANGED <<google_credentials, slack_token, clock, sheet_outcomes,
                   bugs_by_sheet, test_aggregation, blocks, records, bug_count>>

\* Line 363
Aggregate ==
    /\ pc = "aggregate"
    /\ test_aggregation' = aggregate_test_results(test_results)
    /\ pc' = "report"
    /\ UNCHANGED <<google_credentials, slack_token, calls, clock,
                   sheet_outcomes, bugs_by_sheet, slack_world, test_results,
                   blocks, exit_code, records, bug_count>>

\* Lines 369-374, "Create and send message", with send_slack_message: the
\* document is built and posted; a failed post is logged only.
CreateAndSend ==
    /\ pc = "report"
    /\ blocks' = create_slack_message(bugs_by_sheet, test_aggregation, clock)
    /\ calls' = Append(calls, "chat_postMessage")
    /\ pc' = "done"
    /\ exit_code' = [code |-> 0]
    /\ UNCHANGED <<google_credentials, slack_token, clock, sheet_outcomes,
                   bugs_by_sheet, slack_world, test_results, test_aggregation,
                   records, bug_count>>

Next ==
    \/ CheckEnv
    \/ InitClients
    \/ CollectBugs
    \/ CollectTests
    \/ Aggregate
    \/ CreateAndSend

Spec == Init /\ [][Next]_vars

----------------------------------------------------------------------------
(* get_bugs_from_sheet on its own: one call on the rows of one worksheet. *)

InitDate ==
    /\ pc = "bugs_call"
    /\ google_credentials = NoValue
    /\ slack_token = NoValue
    /\ clock \in Todays
    /\ records \in SeqsUpTo(DateStrings, MaxRows)
    /\ bug_count = 0
    /\ Fresh

CallGetBugs ==
    /\ pc = "bugs_call"
    /\ \E outcome \in {FetchRows(records), FetchRaised} :
          /\ sheet_outcomes' = <<outcome>>
          /\ bug_count' = get_bugs_from_sheet(outcome, clock)
    /\ calls' = Append(calls, "worksheet")
    /\ pc' = "bugs_returned"
    /\ UNCHANGED <<google_credentials, slack_token, clock, bugs_by_sheet,
                   slack_world, test_results, test_aggregation, blocks,
                   exit_code, records>>

NextDate == CallGetBugs

SpecDate == InitDate /\ [][NextDate]_vars

----------------------------------------------------------------------------
(* get_test_results_from_slack on its own: one call on one history. *)

InitSlack ==
    /\ pc = "slack_call"
    /\ google_credentials = NoValue
    /\ slack_token = NoValue
    /\ clock = MainNow
    /\ Fresh
    /\ Idle

CallGetTestResults ==
    /\ pc = "slack_call"
    /\ \E w \in SlackWorlds(Histories) :
          LET r == get_test_results_from_slack(w)
          IN  /\ slack_world' = w
              /\ calls' = calls \o r.calls
              /\ test_results' = r.ret
              /\ pc' = IF r.raised THEN "slack_raised" ELSE "slack_returned"
    /\ UNCHANGED <<google_credentials, slack_token, clock, sheet_outcomes,
                   bugs_by_sheet, test_aggregation, blocks, exit_code,
                   records, bug_count>>

NextSlack == CallGetTestResults

SpecSlack == InitSlack /\ [][NextSlack]_vars

----------------------------------------------------------------------------
(* aggregate_test_results and create_slack_message on their own: the list  *)
(* is what get_test_results_from_slack returns for a history, the mapping  *)
(* is any mapping.                                                         *)

\* Message bodies whose pass rates lie on and next to the tier boundaries.
ReportBodies ==
    {[has_text |-> TRUE, text |-> StatusText(20, 1, 19, 1, 0)],
     [has_text |-> TRUE, text |-> StatusText(1000, 8, 949, 51, 3)],
     [has_text |-> TRUE, text |-> StatusText(1000, 8, 799, 201, 0)],
     [has_text |-> TRUE, text |-> StatusText(10, 1, 8, 2, 0)],
     [has_text |-> TRUE, text |-> StatusText(12, 2, 12, 0, 1)],
     [has_text |-> TRUE, text |-> StatusText(0, 1, 0, 0, 0)],
     [has_text |-> TRUE,
      text |-> WithRuntime(StatusText(120, 4, 115, 5, 2), <<"3", "m", "4", "5", "s">>)]}

ReportResults ==
    {CollectResults(History(b)) : b \in SeqsUpTo(ReportBodies, MaxRuns)}

ReportMappings ==
    {<<>>,
     <<<<"Tournaments", 3>>, <<"Rakeback", 0>>>>,
     [i \in 1..Len(SHEET_NAMES) |-> <<SHEET_NAMES[i], i % 3>>]}

InitReport ==
    /\ pc = "report_call"
    /\ google_credentials = NoValue
    /\ slack_token = NoValue
    /\ clock = MainNow
    /\ calls = <<>>
    /\ sheet_outcomes = <<>>
    /\ bugs_by_sheet \in ReportMappings
    /\ slack_world = NoValue
    /\ test_results \in ReportResults
    /\ test_aggregation = NoValue
    /\ blocks = <<>>
    /\ exit_code = NoValue
    /\ Idle

CallAggregate ==
    /\ pc = "report_call"
    /\ test_aggregation' = aggregate_test_results(test_results)
    /\ pc' = "report_aggregated"
    /\ UNCHANGED <<google_credentials, slack_token, calls, clock,
                   sheet_outcomes, bugs_by_sheet, slack_world, test_results,
                   blocks, exit_code, records, bug_count>>

CallCreate ==
    /\ pc = "report_aggregated"
    /\ blocks' = create_slack_message(bugs_by_sheet, test_aggregation, clock)
    /\ pc' = "report_rendered"
    /\ UNCHANGED <<google_credentials, slack_token, calls, clock,
                   sheet_outcomes, bugs_by_sheet, slack_world, test_results,
                   test_aggregation, exit_code, records, bug_count>>

NextReport == CallAggregate \/ CallCreate

SpecReport == InitReport /\ [][NextReport]_vars

----------------------------------------------------------------------------
(* Properties *)

\* The lengths of the months of 2024, and the days of that year.
MonthLengths2024 == <<31, 29, 31, 30, 31, 30, 31, 31, 30, 31, 30, 31>>

Days2024 == {md \in (1..12) \X (1..31) : md[2] <= MonthLengths2024[md[1]]}

\* Seconds from 2000-01-01 00:00:00 to midnight of a day of 2024: 8766 days
\* lie between 2000-01-01 and 2024-01-01.
RECURSIVE DayOfYear2024(_, _)
DayOfYear2024(m, d) ==
    IF m = 1 THEN d ELSE MonthLengths2024[m - 1] + DayOfYear2024(m - 1, d)

Instant2024(m, d) == (8766 + DayOfYear2024(m, d) - 1) * 86400

\* Every way of writing a day of 2024 in month/day/4-digit-year form, with
\* the instant of that day's midnight.
DateTable ==
    UNION {{[text |-> t, instant |-> Instant2024(md[1], md[2])] :
                t \in DateTexts(2024, md[1], md[2])} : md \in Days2024}

\* The row's date field is a month/day/year date whose midnight lies in the
\* closed interval [now - 7 days, now].
RowInWindow(row, now) ==
    \E e \in DateTable :
        /\ e.text = row
        /\ now - 7 * 86400 <= e.instant
        /\ e.instant <= now

RowsInWindow(rows, now) == {i \in 1..Len(rows) : RowInWindow(rows[i], now)}

\* C2: get_bugs_from_sheet counts exactly the rows whose date field is a
\* month/day/4-digit-year date in [now - 7 days, now]; a row dated at now is
\* counted, a row dated 7 days and 1 second before now is not, and a row
\* with an unreadable date is not counted and changes nothing for the
\* other rows.
C2_DateWindow ==
    (pc = "bugs_returned" /\ sheet_outcomes[1].kind = "rows") =>
        /\ bug_count = Cardinality(RowsInWindow(records, clock))
        /\ \A i \in 1..Len(records) :
              /\ records[i] \in BadDates => i \notin RowsInWindow(records, clock)
              /\ \A e \in {x \in DateTable : x.text = records[i]} :
                    /\ e.instant = clock => i \in RowsInWindow(records, clock)
                    /\ e.instant = clock - 7 * 86400 - 1
                          => i \notin RowsInWindow(records, clock)

\* A call at midnight on a row dated today and a row with a two-digit year.
C2_Witness ==
    /\ pc = "bugs_returned"
    /\ sheet_outcomes[1].kind = "rows"
    /\ clock = Midnight(2024, 3, 15)
    /\ Len(records) = 2
    /\ records[1] = Padded(3, 2) \o <<"/">> \o Padded(15, 2) \o <<"/">> \o str(2024)
    /\ records[2] = <<"0", "3", "/", "1", "5", "/", "2", "4">>
    /\ bug_count = 1

(* The rendered document *)

\* First part of the first line of a section's text.
SectionHead(b) == b.text.text[1][1]

BlockKind(b) ==
    IF b.type = "header" THEN "header"
    ELSE IF b.type = "divider" THEN "divider"
    ELSE IF b.type = "context" THEN "footer"
    ELSE IF SectionHead(b) = "*:bug: Bugs Found This Week: " THEN "bug_summary"
    ELSE IF SectionHead(b) = "*Breakdown by feature:*" THEN "bug_breakdown"
    ELSE IF SectionHead(b) = "*:test_tube: Test Results Summary*" THEN "test_summary"
    ELSE IF SectionHead(b) = "*Test Runs:* " THEN "test_details"
    ELSE IF SectionHead(b) = "*:test_tube: Test Results:* No test runs found this week"
         THEN "no_runs"
    ELSE "other"

KindsOf(doc) == [i \in 1..Len(doc) |-> BlockKind(doc[i])]

BlocksOfKind(doc, kind) == {i \in 1..Len(doc) : BlockKind(doc[i]) = kind}

NoRunsShown(doc) == BlocksOfKind(doc, "no_runs") # {}

SummaryShown(doc) == BlocksOfKind(doc, "test_summary") # {}

\* The lines of the breakdown section after its heading.
BreakdownLines(doc) ==
    Tail(doc[CHOOSE i \in BlocksOfKind(doc, "bug_breakdown") : TRUE].text.text)

\* The number of rows in the window, for each fetch of a run that returned
\* rows, at the time of the run.
RowsCounted ==
    [o \in {x \in MainOutcomes : x.kind = "rows"} |->
        Cardinality(RowsInWindow(o.records, MainNow))]

\* C1: past client initialisation, whatever the mix of fetch outcomes, the
\* mapping holds one entry per name of SHEET_NAMES in the configured order,
\* a failed fetch counts 0 and every other category has the count of its
\* own rows, and the rendered breakdown has one line per category in that
\* order.
C1_EveryCategory ==
    /\ Len(bugs_by_sheet) = Len(sheet_outcomes)
    /\ \A i \in 1..Len(sheet_outcomes) :
          /\ bugs_by_sheet[i][1] = SHEET_NAMES[i]
          /\ sheet_outcomes[i].kind = "raise" => bugs_by_sheet[i][2] = 0
          /\ sheet_outcomes[i].kind = "rows" =>
                bugs_by_sheet[i][2] = RowsCounted[sheet_outcomes[i]]
    /\ pc \in {"aggregate", "report", "done", "crashed"} =>
          Len(bugs_by_sheet) = Len(SHEET_NAMES)
    /\ pc = "done" =>
          /\ Cardinality(BlocksOfKind(blocks, "bug_breakdown")) = 1
          /\ Len(BreakdownLines(blocks)) = Len(SHEET_NAMES)
          /\ \A i \in 1..Len(SHEET_NAMES) :
                /\ BreakdownLines(blocks)[i][2] = SHEET_NAMES[i]
                /\ BreakdownLines(blocks)[i][4] = bugs_by_sheet[i][2]

\* A finished run in which one fetch raised, one returned no rows and one
\* returned rows.
C1_Witness ==
    /\ pc = "done"
    /\ sheet_outcomes[1].kind = "raise"
    /\ sheet_outcomes[2] = FetchRows(<<>>)
    /\ sheet_outcomes[3].kind = "rows"
    /\ bugs_by_sheet[3][2] = 1
    /\ sheet_outcomes[7].kind = "raise"

\* C9: when one of the two secrets is absent the run stops with a non-zero
\* exit before any collaborator call: no client, no fetch, no post.
C9_MissingSecrets ==
    ((google_credentials = NoValue \/ slack_token = NoValue) /\ pc # "start") =>
        /\ pc = "exited"
        /\ exit_code # NoValue
        /\ exit_code.code # 0
        /\ calls = <<>>
        /\ sheet_outcomes = <<>>
        /\ slack_world = NoValue
        /\ blocks = <<>>

\* The run has stopped; only the chat token was absent.
C9_Witness ==
    /\ pc = "exited"
    /\ google_credentials # NoValue
    /\ Len(google_credentials) > 0
    /\ slack_token = NoValue
    /\ calls = <<>>

\* C5: the aggregate is null exactly for the empty list of records, also
\* when every record has total 0; the document of a run shows the "No test
\* runs found this week" line exactly when no message produced a record and
\* the test summary otherwise.
C5_NullAggregate ==
    /\ pc \in {"report", "done"} =>
          /\ test_aggregation = NoValue <=> Len(test_results) = 0
          /\ Len(test_results) > 0 =>
                test_aggregation.total_runs = Len(test_results)
    /\ pc = "done" =>
          /\ NoRunsShown(blocks) <=> Len(test_results) = 0
          /\ SummaryShown(blocks) <=> Len(test_results) > 0

\* A finished run whose only record has total 0: the summary is shown.
C5_Witness ==
    /\ pc = "done"
    /\ Len(test_results) = 1
    /\ test_results[1].total = 0
    /\ test_aggregation # NoValue
    /\ SummaryShown(blocks)
    /\ ~NoRunsShown(blocks)

\* The private-group API failed with an unsupported-method error.
Unsupported(w) ==
    \/ w.groups_list = ErrUnknownMethod
    \/ w.groups_list = ListReply(TRUE) /\ w.groups_history = ErrUnknownMethod

FallbackSucceeded(w) ==
    /\ w.conversations_list = ListReply(TRUE)
    /\ w.conversations_history.kind = "ok"

FallbackFailed(w) ==
    \/ w.conversations_list.kind = "error"
    \/ w.conversations_list = ListReply(TRUE)
          /\ w.conversations_history.kind = "error"

Called(name) == \E i \in 1..Len(calls) : calls[i] = name

\* The records the messages of a history of a run give.
RecordsOf == [h \in MainHistories |-> CollectResults(h)]

\* C6: after an unsupported-method error of the private-group API the
\* conversation API is tried and, if it succeeds, its messages are used; if
\* it fails too the result is empty, nothing propagates and the run goes on
\* as "no test runs"; the conversation API is not called otherwise.
C6_Fallback ==
    slack_world # NoValue =>
        /\ Unsupported(slack_world) =>
              /\ Called("conversations_list")
              /\ pc # "crashed"
              /\ FallbackSucceeded(slack_world) =>
                    /\ Called("conversations_history")
                    /\ test_results =
                          RecordsOf[slack_world.conversations_history.messages]
              /\ FallbackFailed(slack_world) =>
                    /\ test_results = <<>>
                    /\ pc \in {"aggregate", "report", "done"}
                    /\ pc \in {"report", "done"} =>
                          test_aggregation = NoValue
                    /\ pc = "done" => NoRunsShown(blocks)
        /\ ~Unsupported(slack_world) =>
              /\ ~Called("conversations_list")
              /\ ~Called("conversations_history")

\* A finished run in which groups_history was unsupported and the fallback
\* history call failed as well.
C6_Witness ==
    /\ pc = "done"
    /\ slack_world # NoValue
    /\ slack_world.groups_history = ErrUnknownMethod
    /\ slack_world.conversations_history = OtherException
    /\ NoRunsShown(blocks)

\* Sum of field f over a list, from the first record on.
TotalOver(list, f) ==
    LET acc[i \in 0..Len(list)] ==
            IF i = 0 THEN 0 ELSE acc[i - 1] + list[i][f]
    IN  acc[Len(list)]

\* C4: for a non-empty list the aggregate counts the runs, the runs with
\* failed = 0 and the runs with failed > 0 (together all runs), sums the
\* fields, and its pass rate is summed passed / summed total in percent, 0
\* when the summed total is 0; the single record 10/8/2/0 gives pass rate
\* 80, no successful run, one failed run.
C4_Aggregate ==
    (pc \in {"report_aggregated", "report_rendered"} /\ Len(test_results) > 0) =>
        LET a == test_aggregation
            runs == 1..Len(test_results)
            sumT == TotalOver(test_results, "total")
            sumP == TotalOver(test_results, "passed")
        IN  /\ a # NoValue
            /\ a.total_runs = Len(test_results)
            /\ a.successful_runs =
                  Cardinality({i \in runs : test_results[i].failed = 0})
            /\ a.failed_runs =
                  Cardinality({i \in runs : test_results[i].failed > 0})
            /\ a.successful_runs + a.failed_runs = a.total_runs
            /\ a.total_tests = sumT
            /\ a.total_passed = sumP
            /\ a.total_failed = TotalOver(test_results, "failed")
            /\ a.total_flaky = TotalOver(test_results, "flaky")
            /\ a.pass_rate.den > 0
            /\ sumT > 0 => a.pass_rate.num * sumT = 100 * sumP * a.pass_rate.den
            /\ sumT = 0 => a.pass_rate.num = 0
            /\ (Len(test_results) = 1 /\ test_results[1].total = 10
                  /\ test_results[1].passed = 8 /\ test_results[1].failed = 2
                  /\ test_results[1].flaky = 0) =>
                  /\ a.pass_rate.num = 80 * a.pass_rate.den
                  /\ a.successful_runs = 0
                  /\ a.failed_runs = 1
                  /\ a.total_runs = 1

\* The single record 10/8/2/0 has been aggregated.
C4_Witness ==
    /\ pc = "report_aggregated"
    /\ Len(test_results) = 1
    /\ test_results[1].total = 10
    /\ test_results[1].passed = 8
    /\ test_aggregation # NoValue
    /\ test_aggregation.failed_runs = 1

\* The indicator shown in the test summary of a document.
ShownEmoji(doc) ==
    doc[CHOOSE i \in BlocksOfKind(doc, "test_summary") : TRUE].text.text[2][1]

\* C7: for a non-null aggregate exactly one indicator is shown: healthy for
\* a pass rate >= 95, warning for 80 <= pass rate < 95, critical below 80;
\* 95.0 is healthy, 94.9 warning, 79.9 critical.
C7_Tiers ==
    (pc = "report_rendered" /\ test_aggregation # NoValue) =>
        LET sumT == test_aggregation.total_tests
            sumP == test_aggregation.total_passed
        IN  /\ Cardinality(BlocksOfKind(blocks, "test_summary")) = 1
            /\ ShownEmoji(blocks) \in {EmojiGreen, EmojiYellow, EmojiRed}
            /\ ShownEmoji(blocks) = EmojiGreen
                  <=> (sumT > 0 /\ 100 * sumP >= 95 * sumT)
            /\ ShownEmoji(blocks) = EmojiYellow
                  <=> (sumT > 0 /\ 100 * sumP >= 80 * sumT
                         /\ 100 * sumP < 95 * sumT)
            /\ ShownEmoji(blocks) = EmojiRed
                  <=> (sumT = 0 \/ 100 * sumP < 80 * sumT)
            /\ (sumT > 0 /\ 1000 * sumP = 950 * sumT)
                  => ShownEmoji(blocks) = EmojiGreen
            /\ (sumT > 0 /\ 1000 * sumP = 949 * sumT)
                  => ShownEmoji(blocks) = EmojiYellow
            /\ (sumT > 0 /\ 1000 * sumP = 799 * sumT)
                  => ShownEmoji(blocks) = EmojiRed

\* A document for a pass rate of exactly 95: 19 of 20 passed.
C7_Witness ==
    /\ pc = "report_rendered"
    /\ test_aggregation # NoValue
    /\ test_aggregation.total_tests = 20
    /\ test_aggregation.total_passed = 19
    /\ ShownEmoji(blocks) = EmojiGreen

\* The sections of a document in order: dividers left out, the two blocks of
\* the test summary and the no-runs line both read as the test section.
RECURSIVE Sections(_)
Sections(kinds) ==
    IF Len(kinds) = 0 THEN <<>>
    ELSE IF Head(kinds) \in {"divider", "test_details"} THEN Sections(Tail(kinds))
    ELSE IF Head(kinds) \in {"test_summary", "no_runs"}
         THEN <<"test">> \o Sections(Tail(kinds))
    ELSE <<Head(kinds)>> \o Sections(Tail(kinds))

\* The total shown in the bug summary is the sum of the counts.
TotalShown(doc, d) ==
    /\ Cardinality(BlocksOfKind(doc, "bug_summary")) = 1
    /\ doc[CHOOSE i \in BlocksOfKind(doc, "bug_summary") : TRUE].text.text[1][2]
          = TotalOver(d, 2)

Fetched(w) ==
    IF w.groups_history.kind = "ok" THEN w.groups_history.messages
    ELSE IF w.conversations_history.kind = "ok"
         THEN w.conversations_history.messages
    ELSE <<>>

RecordsAt(ts) == {j \in 1..Len(test_results) : test_results[j].timestamp = ts}

\* C3: a message "<T> tests from <S> shards: <P> passed, <F> failed, <K>
\* flaky. Test runtime: <D>" gives a record with total T, passed P, failed
\* F, flaky K, pass rate P/T*100 (0 for T = 0), status failure exactly for
\* F > 0, and runtime the whole duration D.
C3_ParsedRecord ==
    pc = "slack_returned" =>
        \A i \in 1..Len(Fetched(slack_world)) :
            \A c \in SampleCounts, d \in Durations :
                LET m == Fetched(slack_world)[i]
                IN  (m.has_text
                       /\ m.text = WithRuntime(StatusText(c[1], c[2], c[3], c[4], c[5]), d))
                    => \E j \in RecordsAt(m.ts) :
                          LET r == test_results[j]
                          IN  /\ r.total = c[1]
                              /\ r.passed = c[3]
                              /\ r.failed = c[4]
                              /\ r.flaky = c[5]
                              /\ r.pass_rate.num * c[1]
                                    = 100 * c[3] * r.pass_rate.den
                              /\ r.status = StatusFailed <=> c[4] > 0
                              /\ r.runtime = d

\* The structured grammar accepts the text.
GrammarAccepts(text) == re_search(pattern, 4, text) # NoValue

\* C10: every fetched message whose text the structured grammar accepts,
\* the singular form included, contributes exactly one record.
C10_PreFilterKeeps ==
    pc = "slack_returned" =>
        \A i \in 1..Len(Fetched(slack_world)) :
            LET m == Fetched(slack_world)[i]
            IN  (m.has_text /\ GrammarAccepts(m.text))
                => Cardinality(RecordsAt(m.ts)) = 1

====
